---- MODULE Spec2Model ----
(***************************************************************************)
(* AudioRecorder of src/src/audio.py: one caller thread issuing            *)
(* start_recording / stop_recording, the background reader threads        *)
(* (_record) it spawns, and the capture device they read from.            *)
(*                                                                         *)
(* Python's None is 0 for the handles (stream, recording_thread) and for   *)
(* the max_seconds argument (None and 0 are both falsy at line 96).        *)
(* Time is counted in ticks; one frame read takes FrameTicks ticks and     *)
(* max_seconds is given in ticks.  Frames are numbered in the order the    *)
(* device hands them out (1, 2, 3, ...).                                   *)
(*                                                                         *)
(* pre_initialize, save_wav and _calculate_audio_level are modelled as     *)
(* calls made while nothing records (SpecTools, SpecLevel); SpecMeter is   *)
(* the recorder with a level sink on a device that delivers more frames.   *)
(***************************************************************************)
EXTENDS Integers, Sequences, FiniteSets, TLC

\* ---- bounds of the model
MaxStarts == 2       \* start_recording calls that pass the "already recording" check
MaxFrames == 3       \* frames the device delivers before it stops delivering
MaxMeterFrames == 6  \* the same, where two readers both get as far as a metered frame
MaxSecArg == 1       \* largest max_seconds argument (ticks)
FrameTicks == 1      \* ticks one frame read takes
BytesPerFrame == 2   \* bytes in one frame (chunk * channels * 2 in the program)
SamplesPerFrame == 2 \* largest number of samples in a frame handed to the level meter
MaxWarmUps == 2      \* pre_initialize calls
MaxSaved == 2        \* frames in the frame sequence handed to save_wav

\* ---- program constants
DefaultMaxSeconds == 300
DefaultSampleRate == 16000
DefaultChannels == 1
SampleWidth == 2          \* wf.setsampwidth(2)
NoiseThreshold == 300     \* noise_threshold
FullScale == 32768        \* the 32768.0 of the normalisation
Int16Modulus == 65536     \* 2^16: np.int16 arithmetic wraps modulo this

Threads == 1..MaxStarts
MaxSecondsArgs == 0..MaxSecArg

VARIABLES
    \* AudioRecorder fields
    pyaudio,            \* TRUE iff self.pyaudio is not None
    stream,             \* self.stream: 0 (None) or the id of a stream
    frames,             \* self.frames: sequence of frame numbers
    is_recording,       \* self.is_recording
    recording_thread,   \* self.recording_thread: 0 (None) or a thread id
    max_seconds,        \* self.max_seconds
    level_callback,     \* TRUE iff self.level_callback is not None
    \* the capture device
    openStreams,        \* ids of the streams opened by start_recording and not closed
    opened,             \* number of streams opened so far (ids 1..opened)
    delivered,          \* number of frames the device has handed out
    now,                \* time.time()
    hung,               \* the device has stopped answering reads for good
    capacity,           \* number of frames the device delivers before it stops delivering
    \* the caller thread
    cpc,                \* where the caller is inside start_recording / stop_recording
    c_ms, c_cb, c_lc,   \* arguments of the start_recording call in progress
    c_op,               \* the last call issued: "none", "start" or "stop"
    c_ret,              \* what the last call that returned has returned: "none", "true"
                        \* or "false"
    startLog,           \* what the start_recording call in progress has done, in order
    last_supplied,      \* the non-zero max_seconds argument most recently passed to a
                        \* start_recording call, rejected or not (0 when none was yet)
    \* the reader threads (_record), by thread id
    pc,                 \* position of each thread
    start_time,         \* local start_time
    frame_count,        \* local frame_count
    data,               \* frame returned by the read in use (0 when none is)
    spawned,            \* number of threads started so far (ids 1..spawned)
    levels,             \* frames whose level went to level_callback since the last reset
                        \* of the frame sequence, in order
    \* pre_initialize, save_wav and _calculate_audio_level, called while nothing records
    channels,           \* self.channels
    sample_rate,        \* self.sample_rate
    wavFile,            \* the file at the path given to save_wav
    test_streams,       \* throwaway streams opened by pre_initialize and not closed
    warmups,            \* number of pre_initialize calls so far
    o_op,               \* the last of these three that was called ("none" at first)
    o_ret,              \* what it returned
    o_err,              \* TRUE iff a call it made (PyAudio, stream, wave) raised
    o_in                \* the samples handed to _calculate_audio_level, if it was the last

recorder == <<pyaudio, stream, frames, is_recording, recording_thread, max_seconds,
              level_callback>>
device == <<openStreams, opened, delivered, now, hung, capacity>>
caller == <<cpc, c_ms, c_cb, c_lc, c_op, c_ret, startLog, last_supplied>>
readers == <<pc, start_time, frame_count, data, spawned, levels>>
offline == <<channels, sample_rate, wavFile, test_streams, warmups, o_op, o_ret, o_err, o_in>>
vars == <<recorder, device, caller, readers, offline>>

\* no file at the path
NoFile == [exists |-> FALSE, nchannels |-> 0, sampwidth |-> 0, framerate |-> 0,
           payload |-> <<>>]

\* nothing of pre_initialize, save_wav, _calculate_audio_level has been called
InitOffline ==
    /\ wavFile = NoFile
    /\ test_streams = 0
    /\ warmups = 0
    /\ o_op = "none" /\ o_ret = "none" /\ o_err = FALSE
    /\ o_in = <<>>

\* __init__: PyAudio() may fail, leaving self.pyaudio None
Init ==
    /\ pyaudio \in BOOLEAN
    /\ stream = 0
    /\ frames = <<>>
    /\ is_recording = FALSE
    /\ recording_thread = 0
    /\ max_seconds = DefaultMaxSeconds
    /\ level_callback = FALSE
    /\ openStreams = {}
    /\ opened = 0
    /\ delivered = 0
    /\ now = 0
    /\ hung = FALSE
    /\ capacity = MaxFrames
    /\ cpc = "idle"
    /\ c_ms = 0 /\ c_cb = FALSE /\ c_lc = FALSE
    /\ c_op = "none" /\ c_ret = "none"
    /\ startLog = <<>>
    /\ last_supplied = 0
    /\ pc = [t \in Threads |-> "none"]
    /\ start_time = [t \in Threads |-> 0]
    /\ frame_count = [t \in Threads |-> 0]
    /\ data = [t \in Threads |-> 0]
    /\ spawned = 0
    /\ levels = <<>>
    /\ channels = DefaultChannels
    /\ sample_rate = DefaultSampleRate
    /\ InitOffline

\* a reader inside a call it cannot leave by itself: a device read or the level sink
Blocked(t) == pc[t] \in {"reading0", "reading", "sink"}

\* the caller returns r from the call in progress; the call's arguments and log are gone
Return(r) ==
    /\ cpc' = "idle"
    /\ c_ret' = r
    /\ UNCHANGED c_op
    /\ c_ms' = 0 /\ c_cb' = FALSE /\ c_lc' = FALSE
    /\ startLog' = <<>>
    /\ UNCHANGED last_supplied

(***************************************************************************)
(* start_recording                                                         *)
(***************************************************************************)

\* the caller calls start_recording(max_seconds=ms, callback_fn=cb, level_callback=lc)
StartCall(ms, cb, lc) ==
    /\ cpc = "idle"
    /\ is_recording \/ (opened < MaxStarts /\ spawned < MaxStarts)
    /\ cpc' = "s_check"
    /\ c_ms' = ms /\ c_cb' = cb /\ c_lc' = lc
    /\ c_op' = "start"
    /\ last_supplied' = IF ms # 0 THEN ms ELSE last_supplied
    /\ UNCHANGED <<recorder, device, readers, c_ret, startLog>>
    /\ UNCHANGED offline

\* StartRejected with lines 96-100 moved above the check of line 92
StartRejectedAfterReset ==
    /\ cpc = "s_check"
    /\ is_recording
    /\ max_seconds' = IF c_ms # 0 THEN c_ms ELSE max_seconds
    /\ level_callback' = c_lc
    /\ frames' = <<>>
    /\ Return("false")
    /\ UNCHANGED <<pyaudio, stream, is_recording, recording_thread, device, readers>>
    /\ UNCHANGED offline

\* lines 92-94: already recording, return False (the test of line 92 is the first thing
\* the call does: the flag it finds is the flag the call is made under)
StartRejected ==
    /\ cpc = "s_check"
    /\ is_recording
    /\ Return("false")
    /\ UNCHANGED <<recorder, device, readers>>
    /\ UNCHANGED offline

\* StartReset that falls back to the default limit when no max_seconds is given
StartResetDefaultLimit ==
    /\ cpc = "s_check"
    /\ ~is_recording
    /\ opened < MaxStarts /\ spawned < MaxStarts
    /\ max_seconds' = IF c_ms # 0 THEN c_ms ELSE DefaultMaxSeconds
    /\ level_callback' = c_lc
    /\ frames' = <<>>
    /\ is_recording' = TRUE
    /\ levels' = <<>>
    /\ cpc' = "s_open"
    /\ c_ms' = 0 /\ c_lc' = FALSE
    /\ UNCHANGED <<pyaudio, stream, recording_thread, device, c_cb, c_op, c_ret, startLog,
                   pc, start_time, frame_count, data, spawned>>
    /\ UNCHANGED <<offline, last_supplied>>

\* lines 92 and 96-101: not recording; the limit, the level sink and the frame sequence
\* are set and the flag is raised
StartReset ==
    /\ cpc = "s_check"
    /\ ~is_recording
    /\ opened < MaxStarts /\ spawned < MaxStarts
    /\ max_seconds' = IF c_ms # 0 THEN c_ms ELSE max_seconds
    /\ level_callback' = c_lc
    /\ frames' = <<>>
    /\ is_recording' = TRUE
    /\ levels' = <<>>
    /\ cpc' = "s_open"
    /\ c_ms' = 0 /\ c_lc' = FALSE
    /\ UNCHANGED <<pyaudio, stream, recording_thread, device, c_cb, c_op, c_ret, startLog,
                   pc, start_time, frame_count, data, spawned>>
    /\ UNCHANGED <<offline, last_supplied>>

\* lines 104-111: PyAudio() raises
StartInitFail ==
    /\ cpc = "s_open"
    /\ ~pyaudio
    /\ is_recording' = FALSE
    /\ Return("false")
    /\ UNCHANGED <<pyaudio, stream, frames, recording_thread, max_seconds, level_callback,
                   device, readers>>
    /\ UNCHANGED offline

\* StartOpenFail without line 142
StartOpenFailKeepsFlag ==
    /\ cpc = "s_open"
    /\ pyaudio' = TRUE
    /\ Return("false")
    /\ UNCHANGED <<stream, frames, is_recording, recording_thread, max_seconds,
                   level_callback, device, readers>>
    /\ UNCHANGED offline

\* lines 104-122 and 140-143: PyAudio is there (or is created), open() raises
StartOpenFail ==
    /\ cpc = "s_open"
    /\ pyaudio' = TRUE
    /\ is_recording' = FALSE
    /\ Return("false")
    /\ UNCHANGED <<stream, frames, recording_thread, max_seconds, level_callback,
                   device, readers>>
    /\ UNCHANGED offline

\* StartOpen with the callback of lines 125-127 left out
StartOpenSkipsCallback ==
    /\ cpc = "s_open"
    /\ pyaudio' = TRUE
    /\ opened' = opened + 1
    /\ openStreams' = openStreams \cup {opened + 1}
    /\ stream' = opened + 1
    /\ startLog' = Append(startLog, "open")
    /\ cpc' = "s_spawn"
    /\ UNCHANGED <<frames, is_recording, recording_thread, max_seconds, level_callback,
                   delivered, now, hung, readers, c_ms, c_cb, c_lc, c_op, c_ret>>
    /\ UNCHANGED <<offline, last_supplied, capacity>>

\* lines 104-125: PyAudio is there (or is created), open() returns a new stream
StartOpen ==
    /\ cpc = "s_open"
    /\ pyaudio' = TRUE
    /\ opened' = opened + 1
    /\ openStreams' = openStreams \cup {opened + 1}
    /\ stream' = opened + 1
    /\ startLog' = Append(startLog, "open")
    /\ cpc' = IF c_cb THEN "s_cb" ELSE "s_spawn"
    /\ UNCHANGED <<frames, is_recording, recording_thread, max_seconds, level_callback,
                   delivered, now, hung, readers, c_ms, c_cb, c_lc, c_op, c_ret>>
    /\ UNCHANGED <<offline, last_supplied, capacity>>

\* lines 125-127: callback_fn() returns
StartCallback ==
    /\ cpc = "s_cb"
    /\ startLog' = Append(startLog, "cb")
    /\ cpc' = "s_spawn"
    /\ UNCHANGED <<recorder, device, readers, c_ms, c_cb, c_lc, c_op, c_ret>>
    /\ UNCHANGED <<offline, last_supplied>>

\* lines 125-127 and 140-143: callback_fn() raises
StartCallbackFail ==
    /\ cpc = "s_cb"
    /\ is_recording' = FALSE
    /\ Return("false")
    /\ UNCHANGED <<pyaudio, stream, frames, recording_thread, max_seconds, level_callback,
                   device, readers>>
    /\ UNCHANGED offline

\* lines 131-139: the reader thread is created and started, return True
StartSpawn ==
    /\ cpc = "s_spawn"
    /\ spawned' = spawned + 1
    /\ recording_thread' = spawned + 1
    /\ pc' = [pc EXCEPT ![spawned + 1] = "begin"]
    /\ Return("true")
    /\ UNCHANGED <<pyaudio, stream, frames, is_recording, max_seconds, level_callback,
                   device, start_time, frame_count, data, levels>>
    /\ UNCHANGED offline

(***************************************************************************)
(* stop_recording                                                          *)
(***************************************************************************)

\* the caller calls stop_recording()
StopCall ==
    /\ cpc = "idle"
    /\ cpc' = "p_check"
    /\ c_op' = "stop"
    /\ UNCHANGED <<recorder, device, readers, c_ms, c_cb, c_lc, c_ret, startLog>>
    /\ UNCHANGED <<offline, last_supplied>>

\* StopRejected with the cleanup of lines 223-227 moved above the check of line 203
StopRejectedClosing ==
    /\ cpc = "p_check"
    /\ ~is_recording
    /\ openStreams' = openStreams \ {stream}
    /\ stream' = 0
    /\ Return("false")
    /\ UNCHANGED <<pyaudio, frames, is_recording, recording_thread, max_seconds,
                   level_callback, opened, delivered, now, hung, readers>>
    /\ UNCHANGED <<offline, capacity>>

\* lines 203-205: not recording, return False
StopRejected ==
    /\ cpc = "p_check"
    /\ ~is_recording
    /\ Return("false")
    /\ UNCHANGED <<recorder, device, readers>>
    /\ UNCHANGED offline

\* lines 203 and 208-213: recording; with no frame yet and an open stream the caller
\* issues a device read of its own
StopCheck ==
    /\ cpc = "p_check"
    /\ is_recording
    /\ cpc' = IF frames = <<>> /\ stream # 0 THEN "p_read" ELSE "p_clear"
    /\ UNCHANGED <<recorder, device, readers, c_ms, c_cb, c_lc, c_op, c_ret, startLog>>
    /\ UNCHANGED <<offline, last_supplied>>

\* lines 213-215: the caller's read returns a frame; it is appended
StopReadOk ==
    /\ cpc = "p_read"
    /\ ~hung /\ delivered < capacity
    /\ delivered' = delivered + 1
    /\ now' = now + FrameTicks
    /\ frames' = Append(frames, delivered + 1)
    /\ cpc' = "p_clear"
    /\ UNCHANGED <<pyaudio, stream, is_recording, recording_thread, max_seconds,
                   level_callback, openStreams, opened, hung, readers,
                   c_ms, c_cb, c_lc, c_op, c_ret, startLog>>
    /\ UNCHANGED <<offline, last_supplied, capacity>>

\* lines 213 and 216-217: the caller's read raises
StopReadFail ==
    /\ cpc = "p_read"
    /\ ~hung
    /\ cpc' = "p_clear"
    /\ UNCHANGED <<recorder, device, readers, c_ms, c_cb, c_lc, c_op, c_ret, startLog>>
    /\ UNCHANGED <<offline, last_supplied>>

\* StopClear without line 219
StopClearKeepsFlag ==
    /\ cpc = "p_clear"
    /\ cpc' = IF recording_thread # 0 THEN "p_join" ELSE "p_close"
    /\ UNCHANGED <<recorder, device, readers, c_ms, c_cb, c_lc, c_op, c_ret, startLog>>
    /\ UNCHANGED <<offline, last_supplied>>

\* lines 219-220
StopClear ==
    /\ cpc = "p_clear"
    /\ is_recording' = FALSE
    /\ cpc' = IF recording_thread # 0 THEN "p_join" ELSE "p_close"
    /\ UNCHANGED <<pyaudio, stream, frames, recording_thread, max_seconds, level_callback,
                   device, readers, c_ms, c_cb, c_lc, c_op, c_ret, startLog>>
    /\ UNCHANGED <<offline, last_supplied>>

\* line 221: join returns because the thread has finished
StopJoinExited ==
    /\ cpc = "p_join"
    /\ pc[recording_thread] = "dead"
    /\ cpc' = "p_close"
    /\ UNCHANGED <<recorder, device, readers, c_ms, c_cb, c_lc, c_op, c_ret, startLog>>
    /\ UNCHANGED <<offline, last_supplied>>

\* line 221: join(timeout=1.0) gives up; the thread has spent the timeout inside a
\* device read or the level sink
StopJoinTimeout ==
    /\ cpc = "p_join"
    /\ Blocked(recording_thread)
    /\ cpc' = "p_close"
    /\ UNCHANGED <<recorder, device, readers, c_ms, c_cb, c_lc, c_op, c_ret, startLog>>
    /\ UNCHANGED <<offline, last_supplied>>

\* lines 223-227 and 232-234: the stream (if any) is stopped and closed, return True
StopClose ==
    /\ cpc = "p_close"
    /\ openStreams' = openStreams \ {stream}
    /\ stream' = 0
    /\ Return("true")
    /\ UNCHANGED <<pyaudio, frames, is_recording, recording_thread, max_seconds,
                   level_callback, opened, delivered, now, hung, readers>>
    /\ UNCHANGED <<offline, capacity>>

\* lines 223-229 and 232-234: stop_stream() or close() raises; the handle is kept and
\* the stream is not released, return True
StopCloseFail ==
    /\ cpc = "p_close"
    /\ stream # 0
    /\ Return("true")
    /\ UNCHANGED <<recorder, device, readers>>
    /\ UNCHANGED offline

(***************************************************************************)
(* _record, run by reader thread t                                         *)
(***************************************************************************)

\* lines 148-159: start_time is taken; without a stream the flag is cleared and the
\* thread returns (through finally), otherwise the initial read is issued
RecordBegin(t) ==
    /\ pc[t] = "begin"
    /\ start_time' = [start_time EXCEPT ![t] = now]
    /\ IF stream = 0
         THEN /\ is_recording' = FALSE
              /\ pc' = [pc EXCEPT ![t] = "finally"]
         ELSE /\ pc' = [pc EXCEPT ![t] = "reading0"]
              /\ UNCHANGED is_recording
    /\ UNCHANGED <<pyaudio, stream, frames, recording_thread, max_seconds, level_callback,
                   device, caller, frame_count, data, spawned, levels>>
    /\ UNCHANGED offline

\* line 159: the initial read returns a frame
RecordInitialRead(t) ==
    /\ pc[t] = "reading0"
    /\ ~hung /\ delivered < capacity
    /\ delivered' = delivered + 1
    /\ now' = now + FrameTicks
    /\ data' = [data EXCEPT ![t] = delivered + 1]
    /\ pc' = [pc EXCEPT ![t] = "append0"]
    /\ UNCHANGED <<recorder, openStreams, opened, hung, caller,
                   start_time, frame_count, spawned, levels>>
    /\ UNCHANGED <<offline, capacity>>

\* lines 159 and 162-165: the initial read raises
RecordInitialReadFail(t) ==
    /\ pc[t] = "reading0"
    /\ ~hung
    /\ is_recording' = FALSE
    /\ pc' = [pc EXCEPT ![t] = "finally"]
    /\ UNCHANGED <<pyaudio, stream, frames, recording_thread, max_seconds, level_callback,
                   device, caller, start_time, frame_count, data, spawned, levels>>
    /\ UNCHANGED offline

\* line 160
RecordInitialAppend(t) ==
    /\ pc[t] = "append0"
    /\ frames' = Append(frames, data[t])
    /\ pc' = [pc EXCEPT ![t] = "loop"]
    /\ data' = [data EXCEPT ![t] = 0]
    /\ UNCHANGED <<pyaudio, stream, is_recording, recording_thread, max_seconds,
                   level_callback, device, caller,
                   start_time, frame_count, spawned, levels>>
    /\ UNCHANGED offline

\* RecordLoop without the duration test of lines 169-172
RecordLoopNoLimit(t) ==
    /\ pc[t] = "loop"
    /\ pc' = [pc EXCEPT ![t] =
                IF ~is_recording THEN "finally"
                ELSE IF stream = 0 THEN "finally"
                ELSE "reading"]
    /\ UNCHANGED <<recorder, device, caller, start_time, frame_count, data, spawned, levels>>
    /\ UNCHANGED offline

\* lines 168-175: the loop test, the duration test, and the next read issued on
\* self.stream (AttributeError on None is caught at 186 and breaks the loop)
RecordLoop(t) ==
    /\ pc[t] = "loop"
    /\ pc' = [pc EXCEPT ![t] =
                IF ~is_recording THEN "finally"
                ELSE IF now - start_time[t] > max_seconds THEN "finally"
                ELSE IF stream = 0 THEN "finally"
                ELSE "reading"]
    /\ UNCHANGED <<recorder, device, caller, start_time, frame_count, data, spawned, levels>>
    /\ UNCHANGED offline

\* line 175: the read returns a frame
RecordRead(t) ==
    /\ pc[t] = "reading"
    /\ ~hung /\ delivered < capacity
    /\ delivered' = delivered + 1
    /\ now' = now + FrameTicks
    /\ data' = [data EXCEPT ![t] = delivered + 1]
    /\ pc' = [pc EXCEPT ![t] = "append"]
    /\ UNCHANGED <<recorder, openStreams, opened, hung, caller,
                   start_time, frame_count, spawned, levels>>
    /\ UNCHANGED <<offline, capacity>>

\* RecordReadFail that logs the error and goes on with the loop instead of leaving it
RecordReadFailRetries(t) ==
    /\ pc[t] = "reading"
    /\ ~hung
    /\ pc' = [pc EXCEPT ![t] = "loop"]
    /\ UNCHANGED <<recorder, device, caller, start_time, frame_count, data, spawned, levels>>
    /\ UNCHANGED offline

\* lines 175 and 186-188: the read raises, the loop is left
RecordReadFail(t) ==
    /\ pc[t] = "reading"
    /\ ~hung
    /\ pc' = [pc EXCEPT ![t] = "finally"]
    /\ UNCHANGED <<recorder, device, caller, start_time, frame_count, data, spawned, levels>>
    /\ UNCHANGED offline

\* lines 176-180: append, count, and decide whether this frame is metered
RecordAppend(t) ==
    /\ pc[t] = "append"
    /\ frames' = Append(frames, data[t])
    /\ frame_count' = [frame_count EXCEPT ![t] = frame_count[t] + 1]
    /\ pc' = [pc EXCEPT ![t] =
                IF level_callback /\ (frame_count[t] + 1) % 2 = 0 THEN "level" ELSE "loop"]
    /\ data' = [data EXCEPT ![t] =
                IF level_callback /\ (frame_count[t] + 1) % 2 = 0 THEN data[t] ELSE 0]
    /\ UNCHANGED <<pyaudio, stream, is_recording, recording_thread, max_seconds,
                   level_callback, device, caller, start_time, spawned, levels>>
    /\ UNCHANGED offline

\* lines 181-182: the level of the frame just appended is computed and level_callback
\* is called with it
RecordLevel(t) ==
    /\ pc[t] = "level"
    /\ level_callback
    /\ levels' = Append(levels, data[t])
    /\ pc' = [pc EXCEPT ![t] = "sink"]
    /\ data' = [data EXCEPT ![t] = 0]
    /\ UNCHANGED <<recorder, device, caller, start_time, frame_count, spawned>>
    /\ UNCHANGED offline

\* line 182: level_callback returns
RecordLevelReturn(t) ==
    /\ pc[t] = "sink"
    /\ pc' = [pc EXCEPT ![t] = "loop"]
    /\ UNCHANGED <<recorder, device, caller, start_time, frame_count, data, spawned, levels>>
    /\ UNCHANGED offline

\* lines 182 and 186-188: level_callback raises, or has become None so that calling it
\* raises; the loop is left
RecordLevelFail(t) ==
    /\ pc[t] = "sink" \/ (pc[t] = "level" /\ ~level_callback)
    /\ pc' = [pc EXCEPT ![t] = "finally"]
    /\ data' = [data EXCEPT ![t] = 0]
    /\ UNCHANGED <<recorder, device, caller, start_time, frame_count, spawned, levels>>
    /\ UNCHANGED offline

\* lines 192-193
RecordFinally(t) ==
    /\ pc[t] = "finally"
    /\ is_recording' = FALSE
    /\ pc' = [pc EXCEPT ![t] = "exit"]
    /\ UNCHANGED <<pyaudio, stream, frames, recording_thread, max_seconds, level_callback,
                   device, caller, start_time, frame_count, data, spawned, levels>>
    /\ UNCHANGED offline

\* line 194 and the end of the thread
RecordExit(t) ==
    /\ pc[t] = "exit"
    /\ pc' = [pc EXCEPT ![t] = "dead"]
    /\ UNCHANGED <<recorder, device, caller, start_time, frame_count, data, spawned, levels>>
    /\ UNCHANGED offline

(***************************************************************************)
(* the device                                                              *)
(***************************************************************************)

\* a read is in flight and, from now on, no read returns or raises
DeviceHang ==
    /\ ~hung
    /\ cpc = "p_read" \/ \E t \in Threads : pc[t] \in {"reading0", "reading"}
    /\ hung' = TRUE
    /\ UNCHANGED <<recorder, openStreams, opened, delivered, now, caller, readers>>
    /\ UNCHANGED <<offline, capacity>>

(***************************************************************************)
(* specifications                                                          *)
(***************************************************************************)

CallerNext ==
    \/ \E ms \in MaxSecondsArgs, cb \in BOOLEAN, lc \in BOOLEAN : StartCall(ms, cb, lc)
    \/ StartRejected
    \/ StartReset
    \/ StartInitFail
    \/ StartOpenFail
    \/ StartOpen
    \/ StartCallback
    \/ StartCallbackFail
    \/ StartSpawn
    \/ StopCall
    \/ StopRejected
    \/ StopCheck
    \/ StopReadOk
    \/ StopReadFail
    \/ StopClear
    \/ StopJoinExited
    \/ StopJoinTimeout
    \/ StopClose
    \/ StopCloseFail

ReaderNext(t) ==
    \/ RecordBegin(t)
    \/ RecordInitialRead(t)
    \/ RecordInitialReadFail(t)
    \/ RecordInitialAppend(t)
    \/ RecordLoop(t)
    \/ RecordRead(t)
    \/ RecordReadFail(t)
    \/ RecordAppend(t)
    \/ RecordLevel(t)
    \/ RecordLevelReturn(t)
    \/ RecordLevelFail(t)
    \/ RecordFinally(t)
    \/ RecordExit(t)

Next ==
    \/ CallerNext
    \/ \E t \in Threads : ReaderNext(t)
    \/ DeviceHang

Spec == Init /\ [][Next]_vars

\* stop_recording is never called, every device read returns a frame after one frame
\* interval, and every started reader thread keeps being scheduled
CallerNextAuto ==
    \/ \E ms \in MaxSecondsArgs, cb \in BOOLEAN, lc \in BOOLEAN : StartCall(ms, cb, lc)
    \/ StartRejected
    \/ StartReset
    \/ StartInitFail
    \/ StartOpenFail
    \/ StartOpen
    \/ StartCallback
    \/ StartCallbackFail
    \/ StartSpawn

ReaderNextAuto(t) ==
    \/ RecordBegin(t)
    \/ RecordInitialRead(t)
    \/ RecordInitialAppend(t)
    \/ RecordLoop(t)
    \/ RecordRead(t)
    \/ RecordAppend(t)
    \/ RecordLevel(t)
    \/ RecordLevelReturn(t)
    \/ RecordLevelFail(t)
    \/ RecordFinally(t)
    \/ RecordExit(t)

NextAuto ==
    \/ CallerNextAuto
    \/ \E t \in Threads : ReaderNextAuto(t)

SpecAuto == Init /\ [][NextAuto]_vars /\ \A t \in Threads : WF_vars(ReaderNextAuto(t))

\* sessions with a level sink, no on_started callback and no max_seconds argument, on
\* a device that delivers MaxMeterFrames frames; no read and no sink call raises, but
\* each may take longer than the join timeout of stop_recording
InitMeter ==
    /\ pyaudio = TRUE
    /\ stream = 0
    /\ frames = <<>>
    /\ is_recording = FALSE
    /\ recording_thread = 0
    /\ max_seconds = DefaultMaxSeconds
    /\ level_callback = FALSE
    /\ openStreams = {}
    /\ opened = 0
    /\ delivered = 0
    /\ now = 0
    /\ hung = FALSE
    /\ capacity = MaxMeterFrames
    /\ cpc = "idle"
    /\ c_ms = 0 /\ c_cb = FALSE /\ c_lc = FALSE
    /\ c_op = "none" /\ c_ret = "none"
    /\ startLog = <<>>
    /\ last_supplied = 0
    /\ pc = [t \in Threads |-> "none"]
    /\ start_time = [t \in Threads |-> 0]
    /\ frame_count = [t \in Threads |-> 0]
    /\ data = [t \in Threads |-> 0]
    /\ spawned = 0
    /\ levels = <<>>
    /\ channels = DefaultChannels
    /\ sample_rate = DefaultSampleRate
    /\ InitOffline

CallerNextMeter ==
    \/ StartCall(0, FALSE, TRUE)
    \/ StartRejected
    \/ StartReset
    \/ StartOpen
    \/ StartSpawn
    \/ StopCall
    \/ StopRejected
    \/ StopCheck
    \/ StopReadOk
    \/ StopClear
    \/ StopJoinExited
    \/ StopJoinTimeout
    \/ StopClose

ReaderNextMeter(t) ==
    \/ RecordBegin(t)
    \/ RecordInitialRead(t)
    \/ RecordInitialAppend(t)
    \/ RecordLoop(t)
    \/ RecordRead(t)
    \/ RecordAppend(t)
    \/ RecordLevel(t)
    \/ RecordLevelReturn(t)
    \/ RecordFinally(t)
    \/ RecordExit(t)

NextMeter ==
    \/ CallerNextMeter
    \/ \E t \in Threads : ReaderNextMeter(t)

SpecMeter == InitMeter /\ [][NextMeter]_vars

(***************************************************************************)
(* pre_initialize, save_wav, _calculate_audio_level                        *)
(*                                                                         *)
(* Each is one call of the caller thread made while nothing is recording,  *)
(* so each is one step.  What the environment does (PyAudio, the stream,   *)
(* the wave module raising or not) is chosen by the action taken.          *)
(***************************************************************************)

\* the bytes of frame n: byte i of it is <<n, i>>
FrameBytes(n) == [i \in 1..BytesPerFrame |-> <<n, i>>]

\* b''.join(fs)
RECURSIVE Join(_)
Join(fs) == IF fs = <<>> THEN <<>> ELSE FrameBytes(Head(fs)) \o Join(Tail(fs))

\* the frame sequences a recording can leave behind
RECURSIVE SeqsUpTo(_, _)
SeqsUpTo(S, n) ==
    IF n = 0 THEN {<<>>}
    ELSE LET shorter == SeqsUpTo(S, n - 1)
         IN  shorter \cup {Append(s, x) : s \in shorter, x \in S}

Distinct(s) == \A i, j \in 1..Len(s) : i # j => s[i] # s[j]

FrameSeqs == {s \in SeqsUpTo(1..MaxSaved, MaxSaved) : Distinct(s)}

\* a file some earlier program left at the path
OldFile == [exists |-> TRUE, nchannels |-> DefaultChannels, sampwidth |-> SampleWidth,
            framerate |-> DefaultSampleRate, payload |-> <<"old">>]

\* a recorder constructed with some sample rate and channel count, holding the frames
\* of some finished recording
InitTools ==
    /\ pyaudio \in BOOLEAN
    /\ stream = 0
    /\ frames \in FrameSeqs
    /\ is_recording = FALSE
    /\ recording_thread = 0
    /\ max_seconds = DefaultMaxSeconds
    /\ level_callback = FALSE
    /\ openStreams = {}
    /\ opened = 0
    /\ delivered = 0
    /\ now = 0
    /\ hung = FALSE
    /\ capacity = MaxFrames
    /\ cpc = "idle"
    /\ c_ms = 0 /\ c_cb = FALSE /\ c_lc = FALSE
    /\ c_op = "none" /\ c_ret = "none"
    /\ startLog = <<>>
    /\ last_supplied = 0
    /\ pc = [t \in Threads |-> "none"]
    /\ start_time = [t \in Threads |-> 0]
    /\ frame_count = [t \in Threads |-> 0]
    /\ data = [t \in Threads |-> 0]
    /\ spawned = 0
    /\ levels = <<>>
    /\ channels \in {DefaultChannels, DefaultChannels + 1}
    /\ sample_rate \in {DefaultSampleRate, DefaultSampleRate \div 2}
    /\ wavFile \in {NoFile, OldFile}
    /\ test_streams = 0
    /\ warmups = 0
    /\ o_op = "none" /\ o_ret = "none" /\ o_err = FALSE
    /\ o_in = <<>>

\* the call op returns r; err tells whether something it called raised
Returned(op, r, err) ==
    /\ o_op' = op
    /\ o_ret' = r
    /\ o_err' = err
    /\ o_in' = <<>>

NotRecorder == <<stream, frames, is_recording, recording_thread, max_seconds, level_callback>>

\* ---- pre_initialize

\* lines 51-57: self.pyaudio is None and PyAudio() raises
PreInitializeNoPyAudio ==
    /\ warmups < MaxWarmUps
    /\ ~pyaudio
    /\ warmups' = warmups + 1
    /\ Returned("pre_initialize", "false", TRUE)
    /\ UNCHANGED <<pyaudio, NotRecorder, device, caller, readers>>
    /\ UNCHANGED <<channels, sample_rate, wavFile, test_streams>>

\* lines 60-68, 76-78: self.pyaudio.open raises; no stream was opened
PreInitializeOpenFail ==
    /\ warmups < MaxWarmUps
    /\ warmups' = warmups + 1
    /\ pyaudio' = TRUE
    /\ Returned("pre_initialize", "false", TRUE)
    /\ UNCHANGED <<NotRecorder, device, caller, readers>>
    /\ UNCHANGED <<channels, sample_rate, wavFile, test_streams>>

\* lines 62-70, 76-78: the stream is open and test_stream.read raises; the handler
\* returns False and nothing closes test_stream
PreInitializeReadFail ==
    /\ warmups < MaxWarmUps
    /\ warmups' = warmups + 1
    /\ pyaudio' = TRUE
    /\ test_streams' = test_streams + 1
    /\ Returned("pre_initialize", "false", TRUE)
    /\ UNCHANGED <<NotRecorder, device, caller, readers>>
    /\ UNCHANGED <<channels, sample_rate, wavFile>>

\* lines 62-73, 76-78: the read returned; stop_stream or close raises before the stream
\* is closed
PreInitializeCloseFail ==
    /\ warmups < MaxWarmUps
    /\ warmups' = warmups + 1
    /\ pyaudio' = TRUE
    /\ test_streams' = test_streams + 1
    /\ Returned("pre_initialize", "false", TRUE)
    /\ UNCHANGED <<NotRecorder, device, caller, readers>>
    /\ UNCHANGED <<channels, sample_rate, wavFile>>

\* lines 62-75: open, read, stop_stream, close all return
PreInitializeOk ==
    /\ warmups < MaxWarmUps
    /\ warmups' = warmups + 1
    /\ pyaudio' = TRUE
    /\ Returned("pre_initialize", "true", FALSE)
    /\ UNCHANGED <<NotRecorder, device, caller, readers>>
    /\ UNCHANGED <<channels, sample_rate, wavFile, test_streams>>

\* ---- save_wav

\* the WAV file save_wav writes from the frame sequence fs
WavOf(fs) == [exists |-> TRUE, nchannels |-> channels, sampwidth |-> SampleWidth,
              framerate |-> sample_rate, payload |-> Join(fs)]

\* variant of SaveWavEmpty: the file is opened for writing before the frames are looked at
SaveWavEmptyTruncates ==
    /\ frames = <<>>
    /\ wavFile' = WavOf(frames)
    /\ Returned("save_wav", "false", FALSE)
    /\ UNCHANGED <<recorder, device, caller, readers>>
    /\ UNCHANGED <<channels, sample_rate, test_streams, warmups>>

\* lines 246-248: no frames
SaveWavEmpty ==
    /\ frames = <<>>
    /\ Returned("save_wav", "false", FALSE)
    /\ UNCHANGED <<recorder, device, caller, readers>>
    /\ UNCHANGED <<channels, sample_rate, wavFile, test_streams, warmups>>

\* lines 250-251, 259-261: wave.open raises; the path is as it was
SaveWavOpenFail ==
    /\ frames # <<>>
    /\ Returned("save_wav", "false", TRUE)
    /\ UNCHANGED <<recorder, device, caller, readers>>
    /\ UNCHANGED <<channels, sample_rate, wavFile, test_streams, warmups>>

\* lines 251-256, 259-261: the file was opened for writing (created or truncated) and a
\* later call raises; only some leading part of the payload has reached the file
SaveWavWriteFail ==
    /\ frames # <<>>
    /\ \E k \in 0..(Len(Join(frames)) - 1) :
           wavFile' = [WavOf(frames) EXCEPT !.payload = SubSeq(Join(frames), 1, k)]
    /\ Returned("save_wav", "false", TRUE)
    /\ UNCHANGED <<recorder, device, caller, readers>>
    /\ UNCHANGED <<channels, sample_rate, test_streams, warmups>>

\* variant of SaveWavOk: the frames are written in ascending order of their numbers
SaveWavOkSorted ==
    /\ frames # <<>>
    /\ wavFile' = WavOf(IF Len(frames) = 2 /\ frames[1] > frames[2]
                        THEN <<frames[2], frames[1]>> ELSE frames)
    /\ Returned("save_wav", "true", FALSE)
    /\ UNCHANGED <<recorder, device, caller, readers>>
    /\ UNCHANGED <<channels, sample_rate, test_streams, warmups>>

\* lines 250-258: the file is written and closed
SaveWavOk ==
    /\ frames # <<>>
    /\ wavFile' = WavOf(frames)
    /\ Returned("save_wav", "true", FALSE)
    /\ UNCHANGED <<recorder, device, caller, readers>>
    /\ UNCHANGED <<channels, sample_rate, test_streams, warmups>>

\* ---- _calculate_audio_level

\* the value v as np.int16 holds it
Int16(v) ==
    LET w == v % Int16Modulus
    IN  IF w >= Int16Modulus \div 2 THEN w - Int16Modulus ELSE w

\* np.sum(np.square(audio_data)) with audio_data of dtype int16: np.square keeps the
\* dtype, so every square wraps to int16; np.mean then sums them as float64
RECURSIVE SumSquares(_)
SumSquares(s) == IF s = <<>> THEN 0 ELSE Int16(Head(s) * Head(s)) + SumSquares(Tail(s))

\* _calculate_audio_level(data), samples being np.frombuffer(data, dtype=np.int16).
\* With n samples and sum q of the wrapped squares, rms = sqrt(q / n), which is nan
\* for q < 0; every comparison with nan is false, so min(1.0, nan) is 1.0.
\* The result is "0.0", "1.0" or "between" (a float strictly between the two).
CalculateAudioLevel(samples) ==
    LET n == Len(samples)
        q == SumSquares(samples)
    IN  IF q < 0 THEN "1.0"
        ELSE IF q < NoiseThreshold * NoiseThreshold * n THEN "0.0"
        ELSE IF q >= FullScale * FullScale * n THEN "1.0"
        ELSE IF q = NoiseThreshold * NoiseThreshold * n THEN "0.0"
        ELSE "between"

\* the sample values the frames handed to the level meter are made of
SampleValues == {0 - FullScale, 0 - 200, 0, 100, 200, NoiseThreshold - 1, 1000, FullScale - 1}

SampleFrames == SeqsUpTo(SampleValues, SamplesPerFrame) \ {<<>>}

CalcLevel ==
    /\ \E s \in SampleFrames :
           /\ o_in' = s
           /\ o_op' = "_calculate_audio_level"
           /\ o_ret' = CalculateAudioLevel(s)
           /\ o_err' = FALSE
    /\ UNCHANGED <<recorder, device, caller, readers>>
    /\ UNCHANGED <<channels, sample_rate, wavFile, test_streams, warmups>>

NextTools ==
    \/ PreInitializeNoPyAudio
    \/ PreInitializeOpenFail
    \/ PreInitializeReadFail
    \/ PreInitializeCloseFail
    \/ PreInitializeOk
    \/ SaveWavEmpty
    \/ SaveWavOpenFail
    \/ SaveWavWriteFail
    \/ SaveWavOk

SpecTools == InitTools /\ [][NextTools]_vars

\* the level meter applied to one frame after another
NextLevel == CalcLevel

SpecLevel == Init /\ [][NextLevel]_vars

(***************************************************************************)
(* properties                                                              *)
(***************************************************************************)

\* a reader inside the body of _record: it may still read the device and append
Running(t) == pc[t] \in {"begin", "reading0", "append0", "loop", "reading", "append", "level", "sink"}

InStart == cpc \in {"s_check", "s_open", "s_cb", "s_spawn"}
InStop == cpc \in {"p_check", "p_read", "p_clear", "p_join", "p_close"}

\* C1: at most one background reader is running at any time: no reader is spawned while
\* a reader of an earlier session is still inside _record.
C1_SingleReader == Cardinality({t \in Threads : Running(t)}) <= 1

\* C2: at most one capture stream opened by the recorder is open in every reachable
\* state, also after a session that ended on its own.
C2_SingleOpenStream == Cardinality(openStreams) <= 1

\* C3: start_recording that finds the recording flag true returns false and changes
\* nothing: frames, flag, stream handle, reader thread, max_seconds and level callback
\* are unchanged, no stream is opened, no reader is started and on_started is not invoked.
C3_StartWhileRecordingRejected ==
    [][(cpc = "s_check" /\ is_recording /\ cpc' # cpc)
        => /\ cpc' = "idle" /\ c_ret' = "false"
           /\ UNCHANGED <<recorder, device, readers>>
           /\ startLog = <<>> /\ startLog' = <<>>]_vars

\* a start_recording call has been rejected during a session that has captured frames
C3_Witness ==
    /\ cpc = "idle" /\ c_op = "start" /\ c_ret = "false"
    /\ is_recording /\ frames # <<>>

\* C4: stop_recording that finds the recording flag false returns false and is a no-op:
\* no device read, no join, no change of the stream handle, the streams or the frames.
C4_StopWhileIdleNoOp ==
    [][(cpc = "p_check" /\ ~is_recording /\ cpc' # cpc)
        => /\ cpc' = "idle" /\ c_ret' = "false"
           /\ UNCHANGED <<recorder, device, readers>>]_vars

\* a stop_recording call has returned false while frames and a stream handle of an
\* earlier session were still there
C4_Witness ==
    /\ cpc = "idle" /\ c_op = "stop" /\ c_ret = "false"
    /\ stream # 0 /\ frames # <<>>

\* C5: every wait of stop_recording on the device or on the reader is bounded by the
\* join timeout: the caller is never inside a device read that does not return.
C5_StopNeverHangs == ~(InStop /\ cpc = "p_read" /\ hung)

\* a reader past line 148: its start_time is taken and it has not left the loop
Timed(t) == pc[t] \in {"reading0", "append0", "loop", "reading", "append", "level", "sink"}

\* C6: with no stop_recording and every read returning after one frame interval, a reader
\* whose elapsed time exceeds max_seconds issues no further read and eventually leaves the
\* loop with the recording flag false; the frames captured exceed max_seconds worth of
\* frames by at most one frame.
C6_AutoStop ==
    /\ [](Len(frames) * FrameTicks <= max_seconds + FrameTicks)
    /\ [](\A t \in Threads : pc[t] = "reading" => now - start_time[t] <= max_seconds)
    /\ \A t \in Threads :
          (Timed(t) /\ now - start_time[t] > max_seconds) ~> (pc[t] = "exit" /\ ~is_recording)

\* a session has ended by itself on the limit, one frame past max_seconds worth of frames
C6_Witness ==
    \E t \in Threads :
        /\ recording_thread = t /\ pc[t] = "dead" /\ ~is_recording
        /\ max_seconds = MaxSecArg
        /\ now - start_time[t] > max_seconds
        /\ Len(frames) * FrameTicks > max_seconds

\* C7: the frame sequence is in capture order: strictly increasing in the numbering in
\* which the device handed the frames out.
C7_FramesInCaptureOrder ==
    \A i \in 1..Len(frames) : \A j \in 1..Len(frames) : i < j => frames[i] < frames[j]

\* C8: an accepted start_recording with a callback has invoked on_started exactly once,
\* from the caller, after the stream was opened and before the reader thread exists; the
\* reader it then starts has not read the device yet.
C8_OnStartedOnceBeforeSpawn ==
    [][/\ (InStart /\ c_cb /\ cpc' = "idle" /\ c_ret' = "true")
          => /\ startLog = <<"open", "cb">>
             /\ stream \in openStreams
             /\ recording_thread' \in Threads
             /\ pc[recording_thread'] = "none" /\ pc'[recording_thread'] = "begin"
       /\ (startLog' # startLog /\ startLog' # <<>> /\ startLog'[Len(startLog')] = "cb")
          => /\ cpc = "s_cb" /\ pc' = pc
             /\ startLog' = Append(startLog, "cb")]_vars

\* on_started has been invoked after the open and the reader is about to be started
C8_Witness == cpc = "s_spawn" /\ c_cb /\ startLog = <<"open", "cb">>

\* the recorder is on a path that clears the flag with no further external call: a reader
\* that found no stream, or a reader on its way through finally
ErrorPath ==
    \E t \in Threads : pc[t] = "finally" \/ (pc[t] = "begin" /\ stream = 0)

\* C9 as stated: a true recording flag implies an open stream held by the recorder, or
\* an error path that clears the flag.
C9_FlagImpliesOpenStream ==
    is_recording => (stream # 0 /\ stream \in openStreams) \/ ErrorPath

\* C9 as amended: a true recording flag implies an open stream held by the recorder, or
\* an error path that clears the flag, or a start_recording that has raised the flag
\* (line 101) and has not reached open() (line 116) yet.
C9_FlagImpliesOpenStreamOrStarting ==
    is_recording => (stream # 0 /\ stream \in openStreams) \/ ErrorPath \/ cpc = "s_open"

\* the flag is true between calls, with the stream open and frames captured
C9_Witness ==
    /\ is_recording /\ cpc = "idle" /\ c_ret = "true"
    /\ stream \in openStreams /\ frames # <<>>

\* C10: a start_recording that passed the check and could not initialise PyAudio or open
\* the stream returns false with the flag false, no reader started and on_started not
\* invoked.
C10_StartFailureResetsFlag ==
    [][(cpc = "s_open" /\ cpc' # cpc /\ opened' = opened)
        => /\ cpc' = "idle" /\ c_ret' = "false"
           /\ ~is_recording'
           /\ spawned' = spawned /\ pc' = pc /\ recording_thread' = recording_thread
           /\ startLog = <<>>]_vars

\* the first start_recording has failed before any stream was opened
C10_Witness ==
    /\ cpc = "idle" /\ c_op = "start" /\ c_ret = "false"
    /\ opened = 0 /\ spawned = 0 /\ ~is_recording

\* ---- save_wav (SpecTools)

\* the file holds the frame sequence as one WAV payload: the recorder's channel count
\* and sample rate, 2 bytes per sample, and byte i of the k-th frame at offset
\* (k - 1) * BytesPerFrame + i, with nothing before, between or after
FileHoldsFrames ==
    /\ wavFile.exists
    /\ wavFile.nchannels = channels
    /\ wavFile.framerate = sample_rate
    /\ wavFile.sampwidth = 2
    /\ Len(wavFile.payload) = Len(frames) * BytesPerFrame
    /\ \A k \in 1..Len(frames) : \A i \in 1..BytesPerFrame :
           wavFile.payload[(k - 1) * BytesPerFrame + i] = <<frames[k], i>>

\* C11 as stated: save_wav on a non-empty frame sequence returns true and has written
\* the frames, in order, as a WAV file of the recorder's format
C11_SaveWavAlwaysWrites ==
    (o_op = "save_wav" /\ frames # <<>>) => (o_ret = "true" /\ FileHoldsFrames)

\* C11 amended: save_wav on a non-empty frame sequence returns true exactly when
\* nothing it called raised, and when it returns true the file holds the frames, in
\* order, as a WAV file of the recorder's format
C11_SaveWavWritesUnlessRaised ==
    (o_op = "save_wav" /\ frames # <<>>) =>
        /\ o_ret = "true" <=> ~o_err
        /\ o_ret = "true" => FileHoldsFrames

C11_Witness ==
    /\ o_op = "save_wav" /\ o_ret = "true"
    /\ Len(frames) = 2
    /\ frames[1] > frames[2]

\* C12: save_wav on an empty frame sequence returns false and leaves the path as it
\* was, whether or not a file was there
C12_SaveWavEmptyTouchesNothing ==
    [][(frames = <<>> /\ o_op' = "save_wav") => (o_ret' = "false" /\ wavFile' = wavFile)]_vars

C12_Witness ==
    /\ o_op = "save_wav" /\ frames = <<>> /\ o_ret = "false"
    /\ wavFile = OldFile

\* ---- pre_initialize (SpecTools)

\* C13: when pre_initialize has returned, no throwaway stream is open, and it returned
\* false exactly when something it called raised
C13_WarmUpLeavesNoStream ==
    (o_op = "pre_initialize") => (test_streams = 0 /\ (o_ret = "false" <=> o_err))

\* ---- _calculate_audio_level (SpecLevel)

AllSamples(s, v) == Len(s) > 0 /\ \A i \in 1..Len(s) : s[i] = v

\* C14: a frame whose samples are all 32767, or all -32768, has level 1.0
C14_FullScaleIsOne ==
    (o_op = "_calculate_audio_level" /\ (AllSamples(o_in, 32767) \/ AllSamples(o_in, -32768)))
        => o_ret = "1.0"

\* the sum of the squares of the samples, as integers
RECURSIVE TrueSumSquares(_)
TrueSumSquares(s) == IF s = <<>> THEN 0 ELSE Head(s) * Head(s) + TrueSumSquares(Tail(s))

\* C15: a frame whose RMS amplitude is below 300 has level 0.0
C15_BelowFloorIsZero ==
    (o_op = "_calculate_audio_level" /\ TrueSumSquares(o_in) < 300 * 300 * Len(o_in))
        => o_ret = "0.0"

\* ---- failures inside the reader (Spec)

\* a device read of reader t raises, or the level sink raises in reader t
ReaderFails(t) == RecordInitialReadFail(t) \/ RecordReadFail(t) \/ RecordLevelFail(t)

Leaving == {"finally", "exit", "dead"}

\* C16: a failure inside a reader (a read that raises, initially or in the loop, or the
\* level sink raising) takes the reader to its finally clause with the frame sequence
\* untouched; from there the reader only goes on to exit, reading nothing more, and the
\* recording flag is false when it leaves the finally clause
C16_ReaderFailureIsImplicitStop ==
    [][\A t \in Threads :
          /\ ReaderFails(t) => (pc'[t] = "finally" /\ frames' = frames)
          /\ pc[t] \in Leaving => pc'[t] \in Leaving
          /\ (pc[t] = "finally" /\ pc'[t] = "exit") => (~is_recording' /\ frames' = frames)
      ]_vars

\* the only reader ever started is in its finally clause although the flag is up, the
\* stream is there and the limit is not exceeded: a failure took it out of the loop
C16_Witness ==
    /\ spawned = 1 /\ cpc = "idle" /\ c_op = "start"
    /\ pc[1] = "finally"
    /\ frame_count[1] > 0
    /\ Len(frames) > 1
    /\ is_recording /\ stream # 0 /\ now - start_time[1] <= max_seconds

\* ---- the session that ends at the duration limit (Spec)

\* reader t belongs to the session of the last accepted start_recording, has left its
\* loop with the limit exceeded and has exited, and nothing was called since that start
EndedAtLimit(t) ==
    /\ recording_thread = t
    /\ pc[t] = "dead"
    /\ now - start_time[t] > max_seconds
    /\ cpc = "idle" /\ c_op = "start" /\ c_ret = "true"

\* C17: once the reader has ended at the duration limit the recorder is as after a
\* stop_recording that returned true: flag false, stream closed, handle cleared
C17_AutoStopReleasesStream ==
    \A t \in Threads :
        EndedAtLimit(t) => (~is_recording /\ stream = 0 /\ openStreams = {})

\* ---- after stop_recording has returned true (Spec)

\* the last call issued was a stop_recording, and it has returned true
StoppedTrue == cpc = "idle" /\ c_op = "stop" /\ c_ret = "true"

\* C19: from the return of a stop_recording that returned true until the next call, no
\* step changes the frame sequence and the recording flag stays false
C19_FramesFrozenAfterStop ==
    [][StoppedTrue => (frames' = frames /\ ~is_recording /\ ~is_recording')]_vars

\* ---- the duration limit (Spec)

\* the start_recording call in progress passes its "already recording" test and goes on
Accepting == cpc = "s_check" /\ cpc' = "s_open"

\* a reader goes on to its next loop read only with the elapsed time within max_seconds
LimitEnforced ==
    \A t \in Threads : (pc[t] = "loop" /\ pc'[t] = "reading") => now - start_time[t] <= max_seconds

\* C20 as stated: a start_recording that is accepted sets the limit to its max_seconds
\* when that is non-zero, and otherwise to the non-zero value most recently passed to
\* any earlier start_recording call, or to 300 if there was none; no other step, a
\* rejected start_recording included, changes the limit; the loop enforces the limit
C20_LimitFromLastSupplied ==
    [][/\ Accepting =>
              max_seconds' = IF c_ms # 0 THEN c_ms
                             ELSE IF last_supplied # 0 THEN last_supplied ELSE 300
       /\ ~Accepting => max_seconds' = max_seconds
       /\ LimitEnforced
      ]_vars

\* C20 amended: the value carried over by a start_recording without max_seconds is the
\* limit in force, which is the non-zero value most recently passed to a start_recording
\* call that was not rejected, or 300 if there was none; a rejected call changes nothing
C20_LimitFromLastAccepted ==
    /\ [](last_supplied = 0 => max_seconds = 300)
    /\ [][/\ Accepting => max_seconds' = IF c_ms # 0 THEN c_ms ELSE max_seconds
          /\ ~Accepting => max_seconds' = max_seconds
          /\ LimitEnforced
         ]_vars

\* the second session runs under the limit 300 although a rejected start_recording in
\* between was given a non-zero max_seconds
C20_Witness ==
    /\ spawned = 2 /\ pc[2] = "reading"
    /\ is_recording
    /\ last_supplied # 0
    /\ max_seconds = 300

\* ---- level metering (SpecMeter)

\* the place of frame f in the frame sequence (0 when it is not there)
PlaceInFrames(f) ==
    IF \E k \in 1..Len(frames) : frames[k] = f
    THEN CHOOSE k \in 1..Len(frames) : frames[k] = f
    ELSE 0

\* C18: the levels of any two frames of the frame sequence were delivered in the order
\* in which the two frames stand in the frame sequence
C18_LevelsInFrameOrder ==
    \A i, j \in 1..Len(levels) :
        (i < j /\ PlaceInFrames(levels[i]) # 0 /\ PlaceInFrames(levels[j]) # 0)
            => PlaceInFrames(levels[i]) < PlaceInFrames(levels[j])

====
